---- MODULE Spec2Model ----
(***************************************************************************)
(* Model of app.py, the Streamlit front end of the tree species            *)
(* classifier: the "Identify Plant Species" button handler (process_image, *)
(* the POST to the PlantNet API, the interpretation of the reply, the      *)
(* finally-cleanup of the temp files) and its two confidence helpers.      *)
(*                                                                         *)
(* Three specifications:                                                   *)
(*   Spec      one browser session runs the handler, the remote API may    *)
(*             answer anything;                                            *)
(*   SpecConc  two browser sessions run the handler at the same time in    *)
(*             the one Streamlit process (one working directory), the      *)
(*             remote API answers as a function of the bytes it receives;  *)
(*   SpecPure  the pure helpers applied to bounded inputs.                 *)
(***************************************************************************)
EXTENDS Integers, Sequences, FiniteSets, TLC

VARIABLES pc, inp, fs, inodes, wfd, fh, isOpen, submitted, response,
          emitted, cards, summary, jsonParsed, pure

vars == <<pc, inp, fs, inodes, wfd, fh, isOpen, submitted, response,
          emitted, cards, summary, jsonParsed, pure>>

(***************************************************************************)
(* Bounds of the model.                                                    *)
(***************************************************************************)
MaxLen == 3          \* longest `results` array the API returns
SliderTop == 3       \* largest max_results the slider is moved to
Margin == 12         \* scores sampled this far (in 0.01 %) around a threshold

(***************************************************************************)
(* Program constants.                                                      *)
(***************************************************************************)
MaxDim == 1024       \* process_image: bounding box of the thumbnail
HighMin == 70        \* get_confidence_class / format_confidence
MediumMin == 40
CommonShown == 3     \* common[:3]
StatusOK == 200

Sessions == {"s1", "s2"}
Slots == {1, 2}
Path(k) == IF k = 1 THEN "images/img1.png" ELSE "images/img2.png"
Paths == {Path(k) : k \in Slots}

(***************************************************************************)
(* Small arithmetic helpers.                                               *)
(***************************************************************************)
Abs(n) == IF n < 0 THEN -n ELSE n
Min2(a, b) == IF a <= b THEN a ELSE b
Max2(a, b) == IF a >= b THEN a ELSE b

\* SubSeq that tolerates a prefix longer than the sequence (Python s[:n])
Prefix(s, n) == SubSeq(s, 1, Min2(Len(s), n))

(***************************************************************************)
(* process_image: the part that works on the pixel buffer.                 *)
(* An image is [id, mode, w, h, ok]; ok = FALSE is a file PIL cannot       *)
(* decode.                                                                 *)
(***************************************************************************)
\* modes the PNG and JPEG decoders of PIL produce
Modes == {"1", "L", "LA", "P", "RGB", "RGBA", "CMYK", "I;16"}
HasAlpha(mode) == mode \in {"LA", "RGBA", "PA"}
HasPalette(mode) == mode \in {"P", "PA"}
\* modes the PNG encoder of PIL refuses ("cannot write mode CMYK as PNG")
PngWritable(mode) == mode # "CMYK"

\* if img.mode in ("RGBA", "P"): img = img.convert("RGB")
ConvertMode(mode) == IF mode \in {"RGBA", "P"} THEN "RGB" ELSE mode

\* Image.thumbnail's round_aspect: of floor and ceil of num/den the one whose
\* key is smaller (floor on a tie), and at least 1.  keyF, keyC are the keys.
RoundAspect(num, den, keyF, keyC) ==
    LET f == num \div den
        c == IF num % den = 0 THEN f ELSE f + 1
    IN  Max2(IF keyF <= keyC THEN f ELSE c, 1)

\* Image.thumbnail((MaxDim, MaxDim)): the size it resizes to
ThumbnailSize(w, h) ==
    IF MaxDim >= w /\ MaxDim >= h THEN <<w, h>>
    ELSE IF MaxDim * h >= w * MaxDim
         THEN \* x = round_aspect(y * aspect, key = |aspect - n / y|)
              LET num == MaxDim * w
                  f == num \div h
                  c == IF num % h = 0 THEN f ELSE f + 1
              IN  <<RoundAspect(num, h, Abs(w * MaxDim - f * h),
                                        Abs(w * MaxDim - c * h)), MaxDim>>
         ELSE \* y = round_aspect(x / aspect, key = 0 if n == 0 else |aspect - x / n|)
              LET num == MaxDim * h
                  f == num \div w
                  c == IF num % w = 0 THEN f ELSE f + 1
              IN  <<MaxDim, RoundAspect(num, w,
                        IF f = 0 THEN 0 ELSE Abs(w * f - MaxDim * h) * c,
                        IF f = 0 THEN 1 ELSE Abs(w * c - MaxDim * h) * f)>>

\* if img.size[0] > 1024 or img.size[1] > 1024: img.thumbnail((1024, 1024))
ResizedSize(w, h) ==
    IF w > MaxDim \/ h > MaxDim THEN ThumbnailSize(w, h) ELSE <<w, h>>

\* the bytes img.save(filename, format="PNG") writes for a decodable image
NormalizeImage(img) ==
    LET sz == ResizedSize(img.w, img.h)
    IN  [kind |-> "png", id |-> img.id, mode |-> ConvertMode(img.mode),
         w |-> sz[1], h |-> sz[2]]

\* what process_image does up to img.save: "decode" (Image.open raises),
\* "encode" (img.save raises) or "ok"
ProcessResult(img) ==
    IF ~img.ok THEN "decode"
    ELSE IF ~PngWritable(ConvertMode(img.mode)) THEN "encode"
    ELSE "ok"

(***************************************************************************)
(* The confidence helpers.  A score is a percentage in units of 0.01 %     *)
(* (the handler passes round(score * 100, 2)).                             *)
(***************************************************************************)
get_confidence_class_strict(score) ==
    IF score > HighMin * 100 THEN "confidence-high"
    ELSE IF score >= MediumMin * 100 THEN "confidence-medium"
    ELSE "confidence-low"

get_confidence_class(score) ==
    IF score >= HighMin * 100 THEN "confidence-high"
    ELSE IF score >= MediumMin * 100 THEN "confidence-medium"
    ELSE "confidence-low"

\* the label without the digits of the score: the emoji and the bucket words
format_confidence(score) ==
    IF score >= HighMin * 100 THEN [emoji |-> "green", pct |-> score, text |-> "High Confidence"]
    ELSE IF score >= MediumMin * 100
         THEN [emoji |-> "yellow", pct |-> score, text |-> "Medium Confidence"]
    ELSE [emoji |-> "red", pct |-> score, text |-> "Low Confidence"]

\* the bucket a CSS class and a label stand for
BucketOfClass(c) ==
    IF c = "confidence-high" THEN "High"
    ELSE IF c = "confidence-medium" THEN "Medium" ELSE "Low"
BucketOfLabel(l) ==
    IF l.text = "High Confidence" THEN "High"
    ELSE IF l.text = "Medium Confidence" THEN "Medium" ELSE "Low"

(***************************************************************************)
(* JSON values, as response.json() returns them.  An object is a function  *)
(* from its keys; a key that is absent is not in the domain.  A body that  *)
(* is not JSON is JInvalid(text).                                          *)
(***************************************************************************)
JNull == [k |-> "null"]
JNum(n) == [k |-> "num", n |-> n]
JStr(s) == [k |-> "str", s |-> s]
JArr(a) == [k |-> "arr", a |-> a]
JObj(f) == [k |-> "obj", f |-> f]
JInvalid(t) == [k |-> "invalid", t |-> t]
EmptyObj == JObj([q \in {} |-> JNull])

\* dict.get(key, default) on a value known to be a dict
Get(o, key, default) == IF key \in DOMAIN o.f THEN o.f[key] ELSE default

\* Python truth value of a JSON value: `if results:`, `if common`
Truthy(v) ==
    CASE v.k = "null" -> FALSE
      [] v.k = "num" -> v.n # 0
      [] v.k = "str" -> v.s # ""
      [] v.k = "arr" -> Len(v.a) > 0
      [] v.k = "obj" -> DOMAIN v.f # {}
      [] OTHER -> FALSE

\* round half to even of num / den (den > 0): Python's round() and "{:.1f}"
RoundHalfEven(num, den) ==
    LET q == num \div den
        r == num % den
    IN  IF 2 * r < den THEN q
        ELSE IF 2 * r > den THEN q + 1
        ELSE IF q % 2 = 0 THEN q ELSE q + 1

\* A raw score is the API's fraction in units of 0.00001.
\* round(score * 100, 2): the percentage in units of 0.01 %
Round2(raw) == RoundHalfEven(raw, 10)
\* f"{x:.1f}" of a sum of raw scores * 100 over n records, in units of 0.1 %
Format1(sum, n) == RoundHalfEven(sum, 100 * n)

(***************************************************************************)
(* The exception classes of requests and of the interpreter that the       *)
(* except clauses tell apart.                                              *)
(***************************************************************************)
Bases(c) ==
    CASE c = "ReadTimeout" -> {"Timeout"}
      [] c = "ConnectTimeout" -> {"ConnectionError", "Timeout"}
      [] c = "Timeout" -> {"RequestException"}
      [] c = "SSLError" -> {"ConnectionError"}
      [] c = "ConnectionError" -> {"RequestException"}
      [] c = "requests.JSONDecodeError" -> {"InvalidJSONError", "json.JSONDecodeError"}
      [] c = "InvalidJSONError" -> {"RequestException"}
      [] c = "json.JSONDecodeError" -> {"ValueError"}
      [] c = "RequestException" -> {"OSError"}
      [] c \in {"OSError", "ValueError", "AttributeError", "TypeError"} -> {"Exception"}
      [] OTHER -> {}

RECURSIVE IsInstance(_, _)
IsInstance(c, base) == c = base \/ \E b \in Bases(c) : IsInstance(b, base)

\* what requests.post(..., timeout=30) raises when no response arrives
TransportFailures == {"ReadTimeout", "ConnectTimeout", "ConnectionError", "SSLError"}
\* what response.json() raises on a body that is not JSON: the class depends
\* on the installed requests (2.27 and later: requests.JSONDecodeError,
\* a RequestException; before: a plain ValueError)
JsonFailures == {"requests.JSONDecodeError", "json.JSONDecodeError"}

(***************************************************************************)
(* Outcomes: what the handler shows with st.success / st.warning /         *)
(* st.error.                                                               *)
(***************************************************************************)
Out(tag, status, detail) == [tag |-> tag, status |-> status, detail |-> detail]
Success == Out("Success", 0, JNull)
Empty == Out("Empty", 0, JNull)
ApiError(status, body) == Out("ApiError", status, body)
Timeout == Out("Timeout", 0, JNull)
NetworkError(e) == Out("NetworkError", 0, JStr(e))
Unexpected(e) == Out("Unexpected", 0, JStr(e))

\* the except clauses in the order a wrong handler would have them
ExceptClauseSwapped(exc) ==
    IF IsInstance(exc, "RequestException") THEN NetworkError(exc)
    ELSE IF IsInstance(exc, "Timeout") THEN Timeout
    ELSE Unexpected(exc)

\* except Timeout / except RequestException / except Exception, in this order
ExceptClause(exc) ==
    IF IsInstance(exc, "Timeout") THEN Timeout
    ELSE IF IsInstance(exc, "RequestException") THEN NetworkError(exc)
    ELSE Unexpected(exc)

(***************************************************************************)
(* The body of the loop over results[:max_results].                        *)
(***************************************************************************)
NameKey == "scientificNameWithoutAuthor"
Fail(e) == [ok |-> FALSE, exc |-> e, card |-> JNull]

\* ', '.join(common[:3]) if common else 'Not available'
\* (commonNames is an array of strings, null or absent in this model; any
\*  other truthy value makes the slice or the join raise TypeError)
CommonShown3(common) ==
    IF ~Truthy(common) THEN [ok |-> TRUE, shown |-> JStr("Not available")]
    ELSE IF common.k = "arr" /\ \A j \in 1..Len(common.a) : common.a[j].k = "str"
         THEN [ok |-> TRUE, shown |-> JArr(Prefix(common.a, CommonShown))]
    ELSE [ok |-> FALSE, shown |-> JNull]

RenderCard(r, i) ==
    IF r.k # "obj" THEN Fail("AttributeError")
    ELSE LET species == Get(r, "species", EmptyObj) IN
    IF species.k # "obj" THEN Fail("AttributeError")
    ELSE LET name == Get(species, NameKey, JStr("Unknown Species"))
             common == Get(species, "commonNames", JArr(<<>>))
             raw == Get(r, "score", JNum(0)) IN
    IF raw.k # "num" THEN Fail("TypeError")
    ELSE LET score == Round2(raw.n)
             fam == Get(species, "family", EmptyObj) IN
    IF fam.k # "obj" THEN Fail("AttributeError")
    ELSE LET family == Get(fam, NameKey, JStr("Unknown Family"))
             gen == Get(species, "genus", EmptyObj) IN
    IF gen.k # "obj" THEN Fail("AttributeError")
    ELSE LET genus == Get(gen, NameKey, JStr("Unknown Genus"))
             shown == CommonShown3(common) IN
    IF ~shown.ok THEN Fail("TypeError")
    ELSE [ok |-> TRUE, exc |-> "",
          card |-> [rank |-> i, name |-> name, score |-> score,
                    cls |-> get_confidence_class(score),
                    label |-> format_confidence(score),
                    common |-> shown.shown, family |-> family, genus |-> genus]]

\* for i, r in enumerate(results[:max_results]): the cards rendered, and the
\* exception that ended the loop early, if any
RenderLoop(rs) ==
    LET F[i \in 0..Len(rs)] ==
          IF i = 0 THEN [ok |-> TRUE, exc |-> "", cards |-> <<>>]
          ELSE IF ~F[i - 1].ok THEN F[i - 1]
          ELSE LET c == RenderCard(rs[i], i) IN
               IF c.ok THEN [ok |-> TRUE, exc |-> "",
                             cards |-> Append(F[i - 1].cards, c.card)]
               ELSE [ok |-> FALSE, exc |-> c.exc, cards |-> F[i - 1].cards]
    IN  F[Len(rs)]

(***************************************************************************)
(* The Analysis Summary: the three st.metric calls over the full list.     *)
(***************************************************************************)
\* the exception [r.get("score", 0) * 100 for r in results] raises, or ""
ScoreListExc(rs) ==
    LET bad == {i \in 1..Len(rs) :
                  \/ rs[i].k # "obj"
                  \/ Get(rs[i], "score", JNum(0)).k # "num"}
        first == CHOOSE i \in bad : \A j \in bad : i <= j
    IN  IF bad = {} THEN ""
        ELSE IF rs[first].k # "obj" THEN "AttributeError" ELSE "TypeError"

RawScore(r) == Get(r, "score", JNum(0)).n

MaxRaw(rs) == CHOOSE m \in {RawScore(rs[i]) : i \in 1..Len(rs)} :
                  \A i \in 1..Len(rs) : RawScore(rs[i]) <= m

SumRaw(rs) ==
    LET S[i \in 0..Len(rs)] == IF i = 0 THEN 0 ELSE S[i - 1] + RawScore(rs[i])
    IN  S[Len(rs)]

Metric(name, value) == [metric |-> name, value |-> value]

\* if show_details and len(results) > 0: ...   (rs is the full list)
SummaryOf(rs) ==
    LET exc == ScoreListExc(rs)
        count == Metric("Total Matches", Len(rs))
    IN  IF exc # "" THEN [ok |-> FALSE, exc |-> exc, metrics |-> <<count>>]
        ELSE [ok |-> TRUE, exc |-> "",
              metrics |-> <<count,
                            Metric("Best Match", Format1(MaxRaw(rs), 1)),
                            Metric("Average Confidence", Format1(SumRaw(rs), Len(rs)))>>]

(***************************************************************************)
(* The try block.  A reply is either an exception of requests.post or a    *)
(* response [status, body]; jsonExc is the class response.json() raises    *)
(* when the body is not JSON.  The result is what the handler has shown    *)
(* when the try statement is left.                                         *)
(***************************************************************************)
ExcReply(e) == [kind |-> "exc", exc |-> e, status |-> 0, body |-> JNull, jsonExc |-> ""]
Response(status, body, je) ==
    [kind |-> "resp", exc |-> "", status |-> status, body |-> body, jsonExc |-> je]
NoReply == [kind |-> "none", exc |-> "", status |-> 0, body |-> JNull, jsonExc |-> ""]

Shown(e, c, m, parsed) == [emitted |-> e, cards |-> c, summary |-> m, parsed |-> parsed]

\* the branch `if results:` once the success banner is up
RenderResults(results, max_results, show_details) ==
    IF results.k # "arr"
    THEN \* len() of a number, r.get of a character, a slice of a dict
         Shown(<<Success, ExceptClause(IF results.k = "str"
                                        THEN "AttributeError" ELSE "TypeError")>>,
               <<>>, <<>>, TRUE)
    ELSE LET loop == RenderLoop(Prefix(results.a, max_results)) IN
         IF ~loop.ok
         THEN Shown(<<Success, ExceptClause(loop.exc)>>, loop.cards, <<>>, TRUE)
         ELSE IF ~show_details THEN Shown(<<Success>>, loop.cards, <<>>, TRUE)
         ELSE LET sm == SummaryOf(results.a) IN
              IF sm.ok THEN Shown(<<Success>>, loop.cards, sm.metrics, TRUE)
              ELSE Shown(<<Success, ExceptClause(sm.exc)>>, loop.cards, sm.metrics, TRUE)

\* the branch `if response.status_code == 200:`
HandleOK(body, jsonExc, max_results, show_details) ==
    IF body.k = "invalid" THEN Shown(<<ExceptClause(jsonExc)>>, <<>>, <<>>, TRUE)
    ELSE IF body.k # "obj" THEN Shown(<<ExceptClause("AttributeError")>>, <<>>, <<>>, TRUE)
    ELSE LET results == Get(body, "results", JArr(<<>>)) IN
         IF Truthy(results) THEN RenderResults(results, max_results, show_details)
         ELSE Shown(<<Empty>>, <<>>, <<>>, TRUE)

\* a handler that decodes the body before it looks at the status
HandleResponseParseFirst(reply, max_results, show_details) ==
    IF reply.body.k = "invalid"
    THEN Shown(<<ExceptClause(reply.jsonExc)>>, <<>>, <<>>, TRUE)
    ELSE IF reply.status = StatusOK
         THEN HandleOK(reply.body, reply.jsonExc, max_results, show_details)
    ELSE Shown(<<ApiError(reply.status, reply.body)>>, <<>>, <<>>, TRUE)

HandleResponse(reply, max_results, show_details) ==
    IF reply.status = StatusOK
    THEN HandleOK(reply.body, reply.jsonExc, max_results, show_details)
    ELSE Shown(<<ApiError(reply.status, reply.body)>>, <<>>, <<>>, FALSE)

\* try: requests.post ... except ...
TryBlock(reply, max_results, show_details) ==
    IF reply.kind = "exc"
    THEN Shown(<<ExceptClause(reply.exc)>>, <<>>, <<>>, FALSE)
    ELSE HandleResponse(reply, max_results, show_details)

(***************************************************************************)
(* What the remote API may send back.                                      *)
(***************************************************************************)
NameObj(n) == JObj([scientificNameWithoutAuthor |-> JStr(n)])

GoodA ==
    JObj([score |-> JNum(91000),
          species |-> JObj([scientificNameWithoutAuthor |-> JStr("Quercus robur"),
                            commonNames |-> JArr(<<JStr("English oak"), JStr("Pedunculate oak"),
                                                   JStr("Common oak"), JStr("European oak")>>),
                            family |-> NameObj("Fagaceae"),
                            genus |-> NameObj("Quercus")])])
GoodB ==
    JObj([score |-> JNum(55004),
          species |-> JObj([scientificNameWithoutAuthor |-> JStr("Acer campestre"),
                            commonNames |-> JArr(<<>>),
                            family |-> NameObj("Sapindaceae"),
                            genus |-> NameObj("Acer")])])
\* no `family` key, commonNames null
NoFamily ==
    JObj([score |-> JNum(20000),
          species |-> JObj([scientificNameWithoutAuthor |-> JStr("Tilia cordata"),
                            commonNames |-> JNull,
                            genus |-> NameObj("Tilia")])])
\* "species": null
NullSpecies == JObj([score |-> JNum(69996), species |-> JNull])
\* "score": null
NullScore == JObj([score |-> JNull, species |-> JObj([genus |-> NameObj("Betula")])])
\* the name is null, no score
NullName ==
    JObj([species |-> JObj([scientificNameWithoutAuthor |-> JNull,
                            family |-> NameObj("Pinaceae")])])
\* {}
Bare == EmptyObj

RecordPool == {GoodA, GoodB, NoFamily, NullSpecies, NullScore, NullName, Bare}

SeqsUpTo(S, n) == UNION {[1..m -> S] : m \in 0..n}
ResultLists == SeqsUpTo(RecordPool, MaxLen)

Bodies200 ==
    {JInvalid("<html>Bad Gateway</html>"), JArr(<<>>),
     JObj([remainingIdentificationRequests |-> JNum(10)]),
     JObj([results |-> JNull]), JObj([results |-> JNum(5)]),
     JObj([results |-> JStr("none")])}
    \cup {JObj([results |-> JArr(l)]) : l \in ResultLists}

BodiesErr ==
    {JInvalid("invalid api key"), JObj([message |-> JStr("Forbidden")]),
     JObj([results |-> JArr(<<GoodA>>)])}

ErrStatuses == {201, 403, 500}

JsonExcOf(body) == IF body.k = "invalid" THEN JsonFailures ELSE {""}

\* every reply the handler can meet, whatever was sent
AllReplies(sent) ==
    {ExcReply(e) : e \in TransportFailures}
    \cup UNION {{Response(StatusOK, b, je) : je \in JsonExcOf(b)} : b \in Bodies200}
    \cup UNION {UNION {{Response(st, b, je) : je \in JsonExcOf(b)} : b \in BodiesErr}
                  : st \in ErrStatuses}

\* an API that answers by what it received: the plant on the first picture,
\* or 400 when a part is not a PNG
SpeciesOn(content) ==
    JObj([score |-> JNum(91000),
          species |-> JObj([scientificNameWithoutAuthor |-> JStr(content.id),
                            family |-> NameObj("Fagaceae"),
                            genus |-> NameObj("Quercus")])])

OracleReplies(sent) ==
    IF \A i \in 1..Len(sent) : sent[i].kind = "png"
    THEN {Response(StatusOK, JObj([results |-> JArr(<<SpeciesOn(sent[1])>>)]), "")}
    ELSE {Response(400, JInvalid("Bad Request"), "requests.JSONDecodeError")}

(***************************************************************************)
(* The uploads and the widget values a session presses the button with.    *)
(***************************************************************************)
Upload(id, mode, w, h, ok) == [id |-> id, mode |-> mode, w |-> w, h |-> h, ok |-> ok]
NoImage == Upload("", "", 0, 0, FALSE)
ImgId(s, k) == IF k = 1 THEN s \o "/primary" ELSE s \o "/secondary"

Input(i1, has2, i2, m, d) ==
    [image1 |-> i1, has2 |-> has2, image2 |-> i2, max_results |-> m, show_details |-> d]
NoInput == Input(NoImage, FALSE, NoImage, 0, FALSE)

Primaries(s) == {Upload(ImgId(s, 1), "RGB", 2048, 1536, TRUE),
                 Upload(ImgId(s, 1), "LA", 640, 480, TRUE),
                 Upload(ImgId(s, 1), "RGB", 0, 0, FALSE)}
Secondaries(s) == {Upload(ImgId(s, 2), "RGBA", 800, 3000, TRUE),
                   Upload(ImgId(s, 2), "CMYK", 640, 480, TRUE),
                   Upload(ImgId(s, 2), "RGB", 0, 0, FALSE)}

\* every way to press the button (image1 is present: `if image1:`)
AllInputs(s) ==
    {Input(i1, FALSE, NoImage, m, d) :
        i1 \in Primaries(s), m \in 1..SliderTop, d \in BOOLEAN}
    \cup {Input(i1, TRUE, i2, m, d) :
        i1 \in Primaries(s), i2 \in Secondaries(s), m \in 1..SliderTop, d \in BOOLEAN}

\* two users who upload good pictures
GoodInputs(s) ==
    {Input(Upload(ImgId(s, 1), "RGB", 2048, 1536, TRUE), FALSE, NoImage, SliderTop, TRUE),
     Input(Upload(ImgId(s, 1), "RGB", 2048, 1536, TRUE), TRUE,
           Upload(ImgId(s, 2), "RGBA", 800, 3000, TRUE), SliderTop, TRUE)}

ImageOf(s, k) == IF k = 1 THEN inp[s].image1 ELSE inp[s].image2

(***************************************************************************)
(* The temp files.  fs maps a path to an inode (0: no such file), inodes   *)
(* holds the content of each inode; an open handle keeps its inode.        *)
(***************************************************************************)
Content(kind, id, mode, w, h) == [kind |-> kind, id |-> id, mode |-> mode, w |-> w, h |-> h]
Truncated == Content("truncated", "", "", 0, 0)
Mixed == Content("mixed", "", "", 0, 0)
NoHandle == [ino |-> 0, created |-> FALSE]

(***************************************************************************)
(* The state after the script has drawn the page: no button pressed yet.   *)
(***************************************************************************)
PureIdle == [kind |-> "none", phase |-> "in", score |-> 0, img |-> NoImage,
             cls |-> "", label |-> format_confidence(0), out |-> Truncated]

InitHandlers ==
    /\ pc = [s \in Sessions |-> <<"idle", 0>>]
    /\ inp = [s \in Sessions |-> NoInput]
    /\ fs = [p \in Paths |-> 0]
    /\ inodes = <<>>
    /\ wfd = [s \in Sessions |-> NoHandle]
    /\ fh = [s \in Sessions |-> [k \in Slots |-> 0]]
    /\ isOpen = [s \in Sessions |-> {}]
    /\ submitted = [s \in Sessions |-> <<>>]
    /\ response = [s \in Sessions |-> NoReply]
    /\ emitted = [s \in Sessions |-> <<>>]
    /\ cards = [s \in Sessions |-> <<>>]
    /\ summary = [s \in Sessions |-> <<>>]
    /\ jsonParsed = [s \in Sessions |-> FALSE]

Init == InitHandlers /\ pure = PureIdle

handlerVars == <<pc, inp, fs, inodes, wfd, fh, isOpen, submitted, response,
                 emitted, cards, summary, jsonParsed>>
shownVars == <<submitted, response, emitted, cards, summary, jsonParsed>>

At(s, label, k) == pc[s] = <<label, k>>

(***************************************************************************)
(* The button handler, one action per step that touches the shared         *)
(* directory or the network.                                               *)
(***************************************************************************)
\* if st.button(...): the script reads the uploads and the sidebar widgets
Press(s, choices) ==
    /\ At(s, "idle", 0)
    /\ \E i \in choices : inp' = [inp EXCEPT ![s] = i]
    /\ pc' = [pc EXCEPT ![s] = <<"save", 1>>]
    /\ UNCHANGED <<fs, inodes, wfd, fh, isOpen, shownVars, pure>>

\* process_image up to the open(filename, "w+b") inside img.save:
\* Image.open raises on a file it cannot decode (nothing catches it: the
\* calls are before the try), else the file is created or truncated
SaveBegin(s, k) ==
    /\ At(s, "save", k)
    /\ IF ProcessResult(ImageOf(s, k)) = "decode"
       THEN /\ pc' = [pc EXCEPT ![s] = <<"crashed", 0>>]
            /\ UNCHANGED <<fs, inodes, wfd>>
       ELSE /\ pc' = [pc EXCEPT ![s] = <<"write", k>>]
            /\ IF fs[Path(k)] = 0
               THEN /\ inodes' = Append(inodes, Truncated)
                    /\ fs' = [fs EXCEPT ![Path(k)] = Len(inodes) + 1]
                    /\ wfd' = [wfd EXCEPT ![s] = [ino |-> Len(inodes) + 1, created |-> TRUE]]
               ELSE /\ inodes' = [inodes EXCEPT ![fs[Path(k)]] = Truncated]
                    /\ fs' = fs
                    /\ wfd' = [wfd EXCEPT ![s] = [ino |-> fs[Path(k)], created |-> FALSE]]
    /\ UNCHANGED <<inp, fh, isOpen, shownVars, pure>>

\* the rest of img.save: the encoder writes the PNG and the file is closed;
\* when the encoder refuses the mode, PIL closes the file, removes it if
\* it had created it, and the exception leaves the handler.
\* Bytes written over bytes another writer has put there since the
\* truncation may end as a mix of the two files.
SaveWrite(s, k) ==
    /\ At(s, "write", k)
    /\ wfd' = [wfd EXCEPT ![s] = NoHandle]
    /\ IF ProcessResult(ImageOf(s, k)) = "encode"
       THEN /\ pc' = [pc EXCEPT ![s] = <<"crashed", 0>>]
            /\ fs' = IF wfd[s].created THEN [fs EXCEPT ![Path(k)] = 0] ELSE fs
            /\ inodes' = inodes
       ELSE /\ pc' = [pc EXCEPT ![s] = <<"open", k>>]
            /\ fs' = fs
            /\ \E c \in IF inodes[wfd[s].ino].kind = "truncated"
                        THEN {NormalizeImage(ImageOf(s, k))}
                        ELSE {NormalizeImage(ImageOf(s, k)), Mixed} :
                  inodes' = [inodes EXCEPT ![wfd[s].ino] = c]
    /\ UNCHANGED <<inp, fh, isOpen, shownVars, pure>>

\* return open(filename, "rb"), then back in the handler
OpenSaved(s, k) ==
    /\ At(s, "open", k)
    /\ IF fs[Path(k)] = 0
       THEN /\ pc' = [pc EXCEPT ![s] = <<"crashed", 0>>]       \* FileNotFoundError
            /\ UNCHANGED <<fh, isOpen>>
       ELSE /\ fh' = [fh EXCEPT ![s][k] = fs[Path(k)]]
            /\ isOpen' = [isOpen EXCEPT ![s] = @ \cup {k}]
            /\ pc' = [pc EXCEPT ![s] = IF k = 1 /\ inp[s].has2
                                        THEN <<"save", 2>> ELSE <<"post", 0>>]
    /\ UNCHANGED <<inp, fs, inodes, wfd, shownVars, pure>>

\* the bytes requests reads from the handles in `files`
SentBy(s) ==
    <<inodes[fh[s][1]]>> \o (IF inp[s].has2 THEN <<inodes[fh[s][2]]>> ELSE <<>>)

\* the try block: requests.post and everything shown for its reply
Post(s, replies) ==
    /\ At(s, "post", 0)
    /\ \E reply \in replies :
         LET shown == TryBlock(reply, inp[s].max_results, inp[s].show_details) IN
         /\ response' = [response EXCEPT ![s] = reply]
         /\ submitted' = [submitted EXCEPT ![s] =
                             IF reply.exc \in {"ConnectTimeout", "ConnectionError", "SSLError"}
                             THEN <<>> ELSE SentBy(s)]
         /\ emitted' = [emitted EXCEPT ![s] = shown.emitted]
         /\ cards' = [cards EXCEPT ![s] = shown.cards]
         /\ summary' = [summary EXCEPT ![s] = shown.summary]
         /\ jsonParsed' = [jsonParsed EXCEPT ![s] = shown.parsed]
    /\ pc' = [pc EXCEPT ![s] = <<"cleanup", 0>>]
    /\ UNCHANGED <<inp, fs, inodes, wfd, fh, isOpen, pure>>

\* finally: file1.close(); file2.close(); os.remove("images/img1.png")
\* (a failing os.remove skips the second one: except: pass)
Cleanup(s) ==
    /\ At(s, "cleanup", 0)
    /\ isOpen' = [isOpen EXCEPT ![s] = {}]
    /\ IF fs[Path(1)] = 0
       THEN /\ fs' = fs
            /\ pc' = [pc EXCEPT ![s] = <<"done", 0>>]
       ELSE /\ fs' = [fs EXCEPT ![Path(1)] = 0]
            /\ pc' = [pc EXCEPT ![s] = IF inp[s].has2 THEN <<"remove", 2>> ELSE <<"done", 0>>]
    /\ UNCHANGED <<inp, inodes, wfd, fh, shownVars, pure>>

\* if image2: os.remove("images/img2.png")
RemoveSecond(s) ==
    /\ At(s, "remove", 2)
    /\ fs' = IF fs[Path(2)] = 0 THEN fs ELSE [fs EXCEPT ![Path(2)] = 0]
    /\ pc' = [pc EXCEPT ![s] = <<"done", 0>>]
    /\ UNCHANGED <<inp, inodes, wfd, fh, isOpen, shownVars, pure>>

Solo == {"s1"}

Next ==
    \E s \in Solo :
       \/ Press(s, AllInputs(s))
       \/ \E k \in Slots : SaveBegin(s, k)
       \/ \E k \in Slots : SaveWrite(s, k)
       \/ \E k \in Slots : OpenSaved(s, k)
       \/ Post(s, AllReplies(SentBy(s)))
       \/ Cleanup(s)
       \/ RemoveSecond(s)

Spec == Init /\ [][Next]_vars

NextConc ==
    \E s \in Sessions :
       \/ Press(s, GoodInputs(s))
       \/ \E k \in Slots : SaveBegin(s, k)
       \/ \E k \in Slots : SaveWrite(s, k)
       \/ \E k \in Slots : OpenSaved(s, k)
       \/ Post(s, OracleReplies(SentBy(s)))
       \/ Cleanup(s)
       \/ RemoveSecond(s)

SpecConc == Init /\ [][NextConc]_vars

(***************************************************************************)
(* The pure helpers on bounded inputs.                                     *)
(***************************************************************************)
ScoreSamples ==
    {-100, 0, 100 * 100, 120 * 100}
    \cup ((MediumMin * 100 - Margin)..(MediumMin * 100 + Margin))
    \cup ((HighMin * 100 - Margin)..(HighMin * 100 + Margin))

Dims == {1, 3, 1000, 1024, 1025, 1536, 2048, 3000}

ImageSamples == {Upload("sample", m, w, h, TRUE) : m \in Modes, w \in Dims, h \in Dims}

InitPure ==
    /\ InitHandlers
    /\ \/ \E sc \in ScoreSamples : pure = [PureIdle EXCEPT !.kind = "score", !.score = sc]
       \/ \E im \in ImageSamples : pure = [PureIdle EXCEPT !.kind = "image", !.img = im]

ApplyConfidence ==
    /\ pure.kind = "score" /\ pure.phase = "in"
    /\ pure' = [pure EXCEPT !.phase = "out",
                            !.cls = get_confidence_class(pure.score),
                            !.label = format_confidence(pure.score)]
    /\ UNCHANGED handlerVars

\* process_image on the sample: the PNG written, or the exception
ApplyProcess ==
    /\ pure.kind = "image" /\ pure.phase = "in"
    /\ pure' = [pure EXCEPT !.phase = IF ProcessResult(pure.img) = "ok" THEN "out" ELSE "raised",
                            !.out = IF ProcessResult(pure.img) = "ok"
                                    THEN NormalizeImage(pure.img) ELSE Truncated]
    /\ UNCHANGED handlerVars

NextPure == ApplyConfidence \/ ApplyProcess

SpecPure == InitPure /\ [][NextPure]_vars

(***************************************************************************)
(* Vocabulary of the properties.                                           *)
(***************************************************************************)
Done(s) == At(s, "done", 0)
Crashed(s) == At(s, "crashed", 0)
\* the try statement has been left
Answered(s) == pc[s][1] \in {"cleanup", "remove", "done"}
Got200(s) == Answered(s) /\ response[s].kind = "resp" /\ response[s].status = StatusOK

\* the five variants of IdentificationOutcome
FiveOutcomes == {"Success", "Empty", "ApiError", "NetworkError", "Timeout"}

\* the body is a JSON object whose `results` is a non-empty array
NonEmptyResults(body) ==
    /\ body.k = "obj"
    /\ "results" \in DOMAIN body.f
    /\ body.f["results"].k = "arr"
    /\ Len(body.f["results"].a) > 0

\* the body is a JSON object whose `results` is an empty array or is missing
EmptyOrMissingResults(body) ==
    /\ body.k = "obj"
    /\ \/ "results" \notin DOMAIN body.f
       \/ body.f["results"].k = "arr" /\ Len(body.f["results"].a) = 0

\* a field of a record as the API contract reads it: absent when the holder
\* is not an object, when the key is missing and when the value is null
Field(o, key) == IF o.k = "obj" /\ key \in DOMAIN o.f THEN o.f[key] ELSE JNull
OrSentinel(v, sentinel) == IF v.k = "null" THEN JStr(sentinel) ELSE v

WantName(r) == OrSentinel(Field(Field(r, "species"), NameKey), "Unknown Species")
HasName(r) == Field(Field(r, "species"), NameKey).k = "str"
WantFamily(r) ==
    OrSentinel(Field(Field(Field(r, "species"), "family"), NameKey), "Unknown Family")
WantGenus(r) ==
    OrSentinel(Field(Field(Field(r, "species"), "genus"), NameKey), "Unknown Genus")
WantRaw(r) == IF Field(r, "score").k = "num" THEN Field(r, "score").n ELSE 0
WantNoCommon(r) == Field(Field(r, "species"), "commonNames").k # "arr"

ResultsOf(s) == response[s].body.f["results"].a
ShownCount(s) == Min2(Len(ResultsOf(s)), inp[s].max_results)
MetricValues(s, name) ==
    {summary[s][i].value : i \in {j \in 1..Len(summary[s]) : summary[s][j].metric = name}}

\* what requests raises when the 30 seconds run out (while connecting or
\* while waiting for the response)
TimeoutFailures == {"ReadTimeout", "ConnectTimeout"}

(***************************************************************************)
(* C1.  Every identification request ends having shown exactly one         *)
(* outcome, and it is one of Success, Empty, ApiError, NetworkError,       *)
(* Timeout, whatever the API replied and however the transport failed.     *)
(***************************************************************************)
C1_ExactlyOneOfFive ==
    \A s \in Sessions :
        Done(s) => /\ Len(emitted[s]) = 1
                   /\ emitted[s][1].tag \in FiveOutcomes

(***************************************************************************)
(* C2.  For every HTTP 200 response the outcome is Success iff `results`   *)
(* is a non-empty array; for an empty or missing `results` the outcome is  *)
(* Empty and neither a card nor the summary is rendered.                   *)
(***************************************************************************)
C2_SuccessIffNonEmpty ==
    \A s \in Sessions :
        Got200(s) =>
            /\ emitted[s] = <<Success>> <=> NonEmptyResults(response[s].body)
            /\ EmptyOrMissingResults(response[s].body) =>
                   /\ emitted[s] = <<Empty>>
                   /\ cards[s] = <<>>
                   /\ summary[s] = <<>>

(***************************************************************************)
(* C3.  The confidence bucket is a total partition of the scores: High iff *)
(* s >= 70, Low iff s < 40, Medium iff 40 <= s < 70, and the CSS class and *)
(* the label give every score the same bucket.                             *)
(***************************************************************************)
C3_BucketPartition ==
    (pure.kind = "score" /\ pure.phase = "out") =>
        LET b == BucketOfClass(pure.cls) IN
        /\ b = "High" <=> pure.score >= 7000
        /\ b = "Low" <=> pure.score < 4000
        /\ b = "Medium" <=> (4000 <= pure.score /\ pure.score < 7000)
        /\ BucketOfLabel(pure.label) = b
        /\ pure.label.pct = pure.score

C3_Witness ==
    /\ pure.kind = "score" /\ pure.phase = "out"
    /\ pure.score = 7000
    /\ pure.cls = "confidence-high"
    /\ pure.label.text = "High Confidence"

(***************************************************************************)
(* C4.  For a non-empty results list of length n the cards are the first   *)
(* min(n, max_results) results in the API's order, and the summary is over *)
(* all n: Total Matches = n, Best Match = the maximum score of the list.   *)
(***************************************************************************)
C4_PrefixShownAllCounted ==
    \A s \in Sessions :
        (Got200(s) /\ NonEmptyResults(response[s].body)) =>
            /\ Len(cards[s]) = ShownCount(s)
            /\ \A i \in 1..Len(cards[s]) :
                   /\ cards[s][i].rank = i
                   /\ cards[s][i].score = Round2(WantRaw(ResultsOf(s)[i]))
                   /\ HasName(ResultsOf(s)[i]) => cards[s][i].name = WantName(ResultsOf(s)[i])
            /\ inp[s].show_details =>
                   /\ MetricValues(s, "Total Matches") = {Len(ResultsOf(s))}
                   /\ MetricValues(s, "Best Match") =
                          {Format1(CHOOSE m \in {WantRaw(ResultsOf(s)[i]) : i \in 1..Len(ResultsOf(s))} :
                                      \A i \in 1..Len(ResultsOf(s)) : WantRaw(ResultsOf(s)[i]) <= m, 1)}

(***************************************************************************)
(* C5.  A malformed or partial record never aborts the batch: the outcome  *)
(* is Success, every record of the displayed prefix has its card, and the  *)
(* fields that are missing or null show their sentinels.                   *)
(***************************************************************************)
C5_DefectsDegradeOneRecord ==
    \A s \in Sessions :
        (Got200(s) /\ NonEmptyResults(response[s].body)) =>
            /\ emitted[s] = <<Success>>
            /\ Len(cards[s]) = ShownCount(s)
            /\ \A i \in 1..Len(cards[s]) :
                   /\ cards[s][i].name = WantName(ResultsOf(s)[i])
                   /\ cards[s][i].family = WantFamily(ResultsOf(s)[i])
                   /\ cards[s][i].genus = WantGenus(ResultsOf(s)[i])
                   /\ WantNoCommon(ResultsOf(s)[i]) => cards[s][i].common = JStr("Not available")

(***************************************************************************)
(* C6.  Whatever the pixel mode and the size of a decodable image, the     *)
(* PNG process_image writes is at most 1024 x 1024, has no alpha channel   *)
(* and no palette, and an image within 1024 x 1024 keeps its size.         *)
(***************************************************************************)
C6_BoundedOpaque ==
    (pure.kind = "image" /\ pure.phase = "out") =>
        /\ pure.out.w <= 1024 /\ pure.out.h <= 1024
        /\ ~HasAlpha(pure.out.mode)
        /\ ~HasPalette(pure.out.mode)
        /\ (pure.img.w <= 1024 /\ pure.img.h <= 1024) =>
               (pure.out.w = pure.img.w /\ pure.out.h = pure.img.h)

(***************************************************************************)
(* C7.  For every response whose status is not 200 the outcome is ApiError *)
(* with that status and the body text verbatim, and the body is not parsed *)
(* as JSON.                                                                *)
(***************************************************************************)
C7_Non200IsApiError ==
    \A s \in Sessions :
        (Answered(s) /\ response[s].kind = "resp" /\ response[s].status # 200) =>
            /\ emitted[s] = <<ApiError(response[s].status, response[s].body)>>
            /\ ~jsonParsed[s]
            /\ cards[s] = <<>> /\ summary[s] = <<>>

C7_Witness ==
    /\ Done("s1")
    /\ response["s1"].kind = "resp"
    /\ response["s1"].status = 403
    /\ response["s1"].body = JInvalid("invalid api key")
    /\ emitted["s1"] = <<ApiError(403, JInvalid("invalid api key"))>>

(***************************************************************************)
(* C8.  When the timeout elapses before a response arrives the outcome is  *)
(* Timeout and not NetworkError; every other transport failure gives       *)
(* NetworkError and not Timeout.                                           *)
(***************************************************************************)
C8_TimeoutApartFromNetwork ==
    \A s \in Sessions :
        (Answered(s) /\ response[s].kind = "exc") =>
            /\ Len(emitted[s]) = 1
            /\ response[s].exc \in TimeoutFailures => emitted[s][1].tag = "Timeout"
            /\ response[s].exc \notin TimeoutFailures => emitted[s][1].tag = "NetworkError"

C8_Witness ==
    /\ Done("s1")
    /\ response["s1"].kind = "exc"
    /\ response["s1"].exc = "ConnectTimeout"
    /\ emitted["s1"] = <<Timeout>>

(***************************************************************************)
(* C9.  Two requests running at the same time are independent: each        *)
(* submits exactly the bytes of its own uploads and reaches the outcome it *)
(* reaches when run alone.                                                 *)
(***************************************************************************)
OwnBytes(s) ==
    <<NormalizeImage(inp[s].image1)>>
    \o (IF inp[s].has2 THEN <<NormalizeImage(inp[s].image2)>> ELSE <<>>)
AloneShown(s) ==
    TryBlock(CHOOSE r \in OracleReplies(OwnBytes(s)) : TRUE,
             inp[s].max_results, inp[s].show_details)

C9_RequestsIndependent ==
    \A s \in Sessions :
        /\ ~Crashed(s)
        /\ Answered(s) =>
               /\ submitted[s] = OwnBytes(s)
               /\ emitted[s] = AloneShown(s).emitted
               /\ cards[s] = AloneShown(s).cards

(***************************************************************************)
(* C10.  Once process_image has opened a file for a request, whichever way *)
(* the request ends, every handle it opened is closed and every temp file  *)
(* it wrote is removed.                                                    *)
(***************************************************************************)
C10_CleanupOnEveryExit ==
    \A s \in Sessions :
        ((Done(s) \/ Crashed(s)) /\ fh[s][1] # 0) =>
            /\ isOpen[s] = {}
            /\ \A p \in Paths : fs[p] = 0

====
